---- MODULE Spec2Model ----
(***************************************************************************)
(* Model of the scene/animation engine of the RIV editor                   *)
(* (src/src/renderer/types/index.ts): the StateMachine class, the Group    *)
(* parent/child lists and the AnimationTrack keyframe resolution.          *)
(***************************************************************************)
EXTENDS Integers, Sequences, FiniteSets, TLC

VARIABLES
  sm,         \* a StateMachine: states, transitions, parameters, currentState, entryState
  smCall,     \* the last call made on sm: method, event argument, return value,
              \* index of the transition committed
  sm2,        \* a second StateMachine, driven by the same calls as sm (SpecDet)
  ret2,       \* the value returned by the last checkTransitions call on sm2
  children,   \* Group.children of every group
  parent,     \* Shape.parent of every shape
  groupCall,  \* the last addChild / removeChild call: receiver, argument, and
              \* whether the argument was in the receiver's children list
  keyframes,  \* AnimationTrack.keyframes of one track
  trackCall,  \* the last call made on the track: method, time argument, return value
  artboard,   \* an Artboard of the project: its ordered root shapes, as a tree of values
  exported,   \* the document of the last exportToRiv call, if the project is unchanged since
  animTracks, \* Animation.tracks: the (property, track) entries of the Map in insertion order
  animShape,  \* the shape an Animation is applied to, as a JavaScript object value
  applyCall,  \* the last applyToShape call, if the tracks are unchanged since: time, whether it threw
  queried,    \* the last getValueAtTime call on a track of the animation, if the tracks are unchanged since
  heap,       \* the objects shapes refer to (transform, position, fill, color, ...), by address
  cloneShapes, \* a source shape and, once clone() was called, its clone: fields holding references
  cloneCall,  \* the last operation on the two shapes: its name, the shape it acted on
  cloned,     \* what the last Group.clone() call on the scene returned: a tree, or a RangeError
  look,       \* opacity and visible of every shape of the scene
  ctx,        \* the canvas context after the last render call: globalAlpha, saved states, drawings
  store,      \* the state of the editor store: shapes, selection, playback, history
  pending,    \* the number of animate callbacks waiting for the next animation frame
  storeCall   \* the last call on the store: its name, and historyIndex before it

vars ==
  <<sm, smCall, sm2, ret2, children, parent, groupCall, keyframes, trackCall,
    artboard, exported, animTracks, animShape, applyCall, queried, heap, cloneShapes, cloneCall,
    cloned, look, ctx, store, pending, storeCall>>

smVars == <<sm, smCall, sm2, ret2>>
groupVars == <<children, parent, groupCall>>
trackVars == <<keyframes, trackCall>>
exportVars == <<artboard, exported>>
\* the variables of the parts added after the three above
animVars == <<animTracks, animShape, applyCall, queried>>
cloneVars == <<heap, cloneShapes, cloneCall>>
sceneVars == <<cloned, look, ctx>>
storeVars == <<store, pending, storeCall>>
restVars == <<exportVars, animVars, cloneVars, sceneVars, storeVars>>

\* ---------------------------------------------------------------- bounds
MaxTransitions == 2
MaxChildren == 2
MaxKeyframes == 3
MaxShapes == 3
MaxTracks == 2
MaxTrackKeyframes == 1
MaxClones == 1
MaxPending == 3
MaxStoreShapes == 2
MaxSnapshots == 3

\* ------------------------------------------------ JavaScript value helpers
\* undefined (an absent optional field, an omitted argument, Map.get miss)
Undefined == "undefined"
\* null (checkTransitions' "no transition" result, Shape.parent of a root)
Null == "null"

\* JavaScript truthiness of an optional string field (trigger.targetId && ...)
Truthy(s) == s # Undefined /\ s # ""

\* dynamically typed parameter / condition values, tagged by typeof
Num(n) == [k |-> "number", n |-> n]
Bool(b) == [k |-> "boolean", n |-> IF b THEN 1 ELSE 0]
UndefVal == [k |-> "undefined", n |-> 0]
\* the string of one decimal digit n ("1"): ToNumber gives n, and two such
\* strings compare by character as their digits do
Digit(n) == [k |-> "string", n |-> n]

\* JavaScript === on the tagged values
StrictEquals(a, b) == a.k = b.k /\ a.n = b.n

\* JavaScript ToNumber yields NaN for undefined; every relational comparison
\* with NaN is false
IsNaN(a) == a.k = "undefined"

\* JavaScript a < b: both operands converted with ToNumber (true -> 1, false -> 0)
LessThan(a, b) == ~IsNaN(a) /\ ~IsNaN(b) /\ a.n < b.n

\* JavaScript a <= b
LessEq(a, b) == ~IsNaN(a) /\ ~IsNaN(b) /\ a.n <= b.n

\* ------------------------------------------------------------ StateMachine
StateIds == {"entry", "A"}
ParamNames == {"p"}
ParamValues == {Num(0), Num(1)}

Trigger(type, targetId, key) == [type |-> type, targetId |-> targetId, key |-> key]
Condition(parameter, operator, value) ==
  [parameter |-> parameter, operator |-> operator, value |-> value]

\* the optional event argument of checkTransitions; present = FALSE is a call
\* with no argument
NoEvent == [present |-> FALSE, type |-> Undefined, target |-> Undefined, key |-> Undefined]
Event(type, target, key) == [present |-> TRUE, type |-> type, target |-> target, key |-> key]

Events ==
  {NoEvent, Event("click", "btn", Undefined), Event("click", "other", Undefined),
   Event("hover", "btn", Undefined)}
TriggerLists == {<<>>, <<Trigger("click", "btn", Undefined)>>}
ConditionLists == {<<>>, <<Condition("p", ">", Num(0))>>}

\* constructor
NewStateMachine ==
  [states |-> {}, transitions |-> <<>>, parameters |-> <<>>,
   currentState |-> "entry", entryState |-> "entry"]

\* addState: states.set(id, {...})
addState(m, id) == [m EXCEPT !.states = @ \cup {id}]

\* addTransition: transitions.push({from, to, triggers, conditions})
addTransition(m, from, to, triggers, conditions) ==
  [m EXCEPT !.transitions =
     Append(@, [from |-> from, to |-> to, triggers |-> triggers, conditions |-> conditions])]

\* setParameter: parameters.set(name, value); the map is a function on the set names
setParameter(m, name, value) ==
  [m EXCEPT !.parameters =
     [n \in (DOMAIN @) \cup {name} |-> IF n = name THEN value ELSE @[n]]]

\* parameters.get(name)
getParameter(m, name) ==
  IF name \in DOMAIN m.parameters THEN m.parameters[name] ELSE UndefVal

\* the callback of transition.triggers.some(...)
triggerMatches(trigger, event) ==
  /\ trigger.type = event.type
  /\ ~(Truthy(trigger.targetId) /\ trigger.targetId # event.target)
  /\ ~(Truthy(trigger.key) /\ trigger.key # event.key)

\* transition.triggers.some(trigger => ...)
triggered(transition, event) ==
  \E i \in 1..Len(transition.triggers) : triggerMatches(transition.triggers[i], event)

\* mutant: a condition with an operator the switch does not know is met
conditionMetByDefault(m, condition) ==
  LET value == getParameter(m, condition.parameter) IN
  CASE condition.operator = "==" -> StrictEquals(value, condition.value)
    [] condition.operator = "!=" -> ~StrictEquals(value, condition.value)
    [] condition.operator = ">" -> LessThan(condition.value, value)
    [] condition.operator = "<" -> LessThan(value, condition.value)
    [] condition.operator = ">=" -> LessEq(condition.value, value)
    [] condition.operator = "<=" -> LessEq(value, condition.value)
    [] OTHER -> TRUE

\* the callback of transition.conditions.every(...): the switch on the operator
conditionMet(m, condition) ==
  LET value == getParameter(m, condition.parameter) IN
  CASE condition.operator = "==" -> StrictEquals(value, condition.value)
    [] condition.operator = "!=" -> ~StrictEquals(value, condition.value)
    [] condition.operator = ">" -> LessThan(condition.value, value)
    [] condition.operator = "<" -> LessThan(value, condition.value)
    [] condition.operator = ">=" -> LessEq(condition.value, value)
    [] condition.operator = "<=" -> LessEq(value, condition.value)
    [] OTHER -> FALSE

\* transition.conditions.every(condition => ...)
conditionsMet(m, transition) ==
  \A i \in 1..Len(transition.conditions) : conditionMet(m, transition.conditions[i])

\* mutant: the loop also skips a transition whose target is not in the states map
passesKnownTarget(m, transition, event) ==
  /\ transition.to \in m.states
  /\ transition.from = m.currentState
  /\ ~(event.present /\ Len(transition.triggers) > 0 /\ ~triggered(transition, event))
  /\ ~(Len(transition.conditions) > 0 /\ ~conditionsMet(m, transition))

\* one pass of the for loop body: TRUE when the loop does not `continue`
passes(m, transition, event) ==
  /\ transition.from = m.currentState
  /\ ~(event.present /\ Len(transition.triggers) > 0 /\ ~triggered(transition, event))
  /\ ~(Len(transition.conditions) > 0 /\ ~conditionsMet(m, transition))

\* the for loop of checkTransitions from index i on: the machine after the call,
\* the value returned, and the index of the transition committed (0: none)
RECURSIVE scanTransitions(_, _, _)
scanTransitions(m, event, i) ==
  IF i > Len(m.transitions) THEN [sm |-> m, ret |-> Null, idx |-> 0]
  ELSE IF passes(m, m.transitions[i], event)
       THEN [sm |-> [m EXCEPT !.currentState = m.transitions[i].to],
             ret |-> m.transitions[i].to, idx |-> i]
       ELSE scanTransitions(m, event, i + 1)

checkTransitions(m, event) == scanTransitions(m, event, 1)

\* ------------------------------------------------------------------ Group
\* the objects of the scene: two Group instances and one Rectangle
Groups == {"g1", "g2"}
Shapes == Groups \cup {"r1"}

\* the scene after construction: Group.children = [] and Shape.parent = null
NewScene == [children |-> [g \in Groups |-> <<>>], parent |-> [s \in Shapes |-> Null]]

\* Array.prototype.indexOf: the first index holding x, 0 when there is none
\* (JavaScript's -1)
indexOf(seq, x) ==
  IF \E i \in 1..Len(seq) : seq[i] = x
  THEN CHOOSE i \in 1..Len(seq) : seq[i] = x /\ \A j \in 1..(i - 1) : seq[j] # x
  ELSE 0

\* Array.prototype.splice(index, 1)
splice1(seq, index) == SubSeq(seq, 1, index - 1) \o SubSeq(seq, index + 1, Len(seq))

\* Group.addChild
addChild(scene, g, shape) ==
  [children |-> [scene.children EXCEPT ![g] = Append(@, shape)],
   parent |-> [scene.parent EXCEPT ![shape] = g]]

\* mutant: removeChild clears the back-reference before it looks the shape up
removeChildAlwaysDetach(scene, g, shape) ==
  LET index == indexOf(scene.children[g], shape) IN
  IF index > 0
  THEN [children |-> [scene.children EXCEPT ![g] = splice1(@, index)],
        parent |-> [scene.parent EXCEPT ![scene.children[g][index]] = Null]]
  ELSE [scene EXCEPT !.parent[shape] = Null]

\* Group.removeChild
removeChild(scene, g, shape) ==
  LET index == indexOf(scene.children[g], shape) IN
  IF index > 0
  THEN [children |-> [scene.children EXCEPT ![g] = splice1(@, index)],
        parent |-> [scene.parent EXCEPT ![scene.children[g][index]] = Null]]
  ELSE scene

GroupCall(op, g, shape, member) == [op |-> op, g |-> g, shape |-> shape, member |-> member]
NoGroupCall == GroupCall("none", "g1", "g1", FALSE)

\* the scene held in the two variables
Scene == [children |-> children, parent |-> parent]

AddChild(g, shape) ==
  /\ Len(children[g]) < MaxChildren
  /\ children' = addChild(Scene, g, shape).children
  /\ parent' = addChild(Scene, g, shape).parent
  /\ groupCall' = GroupCall("addChild", g, shape, indexOf(children[g], shape) > 0)
  /\ UNCHANGED <<smVars, trackVars, restVars>>

RemoveChild(g, shape) ==
  /\ children' = removeChild(Scene, g, shape).children
  /\ parent' = removeChild(Scene, g, shape).parent
  /\ groupCall' = GroupCall("removeChild", g, shape, indexOf(children[g], shape) > 0)
  /\ UNCHANGED <<smVars, trackVars, restVars>>

NextGroup ==
  \/ \E g \in Groups, shape \in Shapes : AddChild(g, shape)
  \/ \E g \in Groups, shape \in Shapes : RemoveChild(g, shape)


\* --------------------------------------------------------- AnimationTrack
\* JavaScript numbers are modelled as exact fractions num/den (den > 0, lowest
\* terms).  The times and values drawn below are such that every quotient and
\* product the code forms is a dyadic fraction, which binary64 holds exactly.
RECURSIVE GCD(_, _)
GCD(a, b) == IF b = 0 THEN a ELSE GCD(b, a % b)

Abs(a) == IF a < 0 THEN -a ELSE a

Rat(n, d) ==
  LET g == GCD(Abs(n), Abs(d))
      sgn == IF d < 0 THEN -1 ELSE 1
  IN [k |-> "number", num |-> sgn * (n \div g), den |-> sgn * (d \div g)]

Number(n) == [k |-> "number", num |-> n, den |-> 1]
NullValue == [k |-> "null", num |-> 0, den |-> 1]

RatAdd(a, b) == Rat(a.num * b.den + b.num * a.den, a.den * b.den)
RatSub(a, b) == Rat(a.num * b.den - b.num * a.den, a.den * b.den)
RatMul(a, b) == Rat(a.num * b.num, a.den * b.den)
RatLess(a, b) == a.num * b.den < b.num * a.den

Times == {0, 50, 100}
Values == {Number(0), Number(10)}
Easings == {"linear", "ease-in"}
QueryTimes == {0, 25, 50, 100, 150}

Keyframe(time, value, easing) == [time |-> time, value |-> value, easing |-> easing]

\* Array.prototype.findIndex(kf => kf.time > time): 0 when there is none
findIndexAfter(kfs, time) ==
  IF \E i \in 1..Len(kfs) : kfs[i].time > time
  THEN CHOOSE i \in 1..Len(kfs) : kfs[i].time > time /\ \A j \in 1..(i - 1) : ~(kfs[j].time > time)
  ELSE 0

\* Array.prototype.findIndex(kf => kf.time === time): 0 when there is none
findIndexAt(kfs, time) ==
  IF \E i \in 1..Len(kfs) : kfs[i].time = time
  THEN CHOOSE i \in 1..Len(kfs) : kfs[i].time = time /\ \A j \in 1..(i - 1) : kfs[j].time # time
  ELSE 0

\* mutant: addKeyframe always pushes
addKeyframeAtEnd(kfs, time, value, easing) == Append(kfs, Keyframe(time, value, easing))

\* AnimationTrack.addKeyframe: push, or splice(index, 0, keyframe)
addKeyframe(kfs, time, value, easing) ==
  LET index == findIndexAfter(kfs, time) IN
  IF index = 0 THEN Append(kfs, Keyframe(time, value, easing))
  ELSE SubSeq(kfs, 1, index - 1) \o <<Keyframe(time, value, easing)>> \o SubSeq(kfs, index, Len(kfs))

\* AnimationTrack.removeKeyframe
removeKeyframe(kfs, time) ==
  LET index == findIndexAt(kfs, time) IN
  IF index > 0 THEN splice1(kfs, index) ELSE kfs

\* the for loop of getValueAtTime from index i on, with beforeIndex as found so
\* far: beforeIndex and afterIndex when the loop ends (0 is JavaScript's -1)
RECURSIVE findSurrounding(_, _, _, _)
findSurrounding(kfs, time, i, beforeIndex) ==
  IF i > Len(kfs) THEN [beforeIndex |-> beforeIndex, afterIndex |-> 0]
  ELSE LET b == IF kfs[i].time <= time THEN i ELSE beforeIndex IN
       IF kfs[i].time >= time
       THEN [beforeIndex |-> b, afterIndex |-> i]
       ELSE findSurrounding(kfs, time, i + 1, b)

\* mutant: every easing is the identity
applyEasingIdentity(t, easing) == t

\* AnimationTrack.applyEasing on a progress t; bounce and elastic are not among
\* the easings drawn here, a bezier descriptor is written "bezier"
applyEasing(t, easing) ==
  CASE easing = "linear" -> t
    [] easing = "ease-in" -> RatMul(t, t)
    [] easing = "ease-out" -> RatMul(t, RatSub(Number(2), t))
    [] easing = "ease-in-out" ->
         IF RatLess(t, Rat(1, 2))
         THEN RatMul(Number(2), RatMul(t, t))
         ELSE RatAdd(Number(-1), RatMul(RatSub(Number(4), RatMul(Number(2), t)), t))
    [] easing = "bezier" -> t
    [] OTHER -> t

\* JavaScript values other than numbers, tagged by kind; null is NullValue
Obj(f) == [k |-> "object", f |-> f]
Str(s) == [k |-> "string", s |-> s]
Boolean(b) == [k |-> "boolean", b |-> b]
UndefinedValue == [k |-> "undefined"]
TypeError == [k |-> "TypeError"]

\* JavaScript typeof: null is an 'object'
TypeOfValue(v) == IF v.k = "null" THEN "object" ELSE v.k

\* AnimationTrack.interpolate: two numbers are blended; of two objects, a new
\* object gets the blend of every key that is a number in both (for...in over
\* null visits nothing, to[key] of null is a TypeError); anything else
\* switches at the midpoint
interpolate(from, to, progress) ==
  IF TypeOfValue(from) = "number" /\ TypeOfValue(to) = "number"
  THEN RatAdd(from, RatMul(RatSub(to, from), progress))
  ELSE IF TypeOfValue(from) = "object" /\ TypeOfValue(to) = "object"
  THEN IF from.k = "null" THEN Obj(<<>>)
       ELSE IF to.k = "null"
       THEN (IF DOMAIN from.f = {} THEN Obj(<<>>) ELSE TypeError)
       ELSE LET numeric == {key \in DOMAIN from.f :
                              /\ from.f[key].k = "number"
                              /\ key \in DOMAIN to.f
                              /\ to.f[key].k = "number"}
            IN Obj([key \in numeric |->
                      RatAdd(from.f[key], RatMul(RatSub(to.f[key], from.f[key]), progress))])
  ELSE IF RatLess(progress, Rat(1, 2)) THEN from ELSE to

\* mutant: the segment is eased by the easing of the keyframe it ends at
getValueAtTimeAfterEasing(kfs, time) ==
  IF Len(kfs) = 0 THEN NullValue
  ELSE LET found == findSurrounding(kfs, time, 1, 0)
           before == kfs[found.beforeIndex]
           after == kfs[found.afterIndex]
       IN IF found.beforeIndex = 0 THEN kfs[1].value
          ELSE IF found.afterIndex = 0 THEN kfs[Len(kfs)].value
          ELSE IF found.beforeIndex = found.afterIndex THEN kfs[found.beforeIndex].value
          ELSE interpolate(before.value, after.value,
                           applyEasing(Rat(time - before.time, after.time - before.time),
                                       after.easing))

\* AnimationTrack.getValueAtTime
getValueAtTime(kfs, time) ==
  IF Len(kfs) = 0 THEN NullValue
  ELSE LET found == findSurrounding(kfs, time, 1, 0)
           before == kfs[found.beforeIndex]
           after == kfs[found.afterIndex]
       IN IF found.beforeIndex = 0 THEN kfs[1].value
          ELSE IF found.afterIndex = 0 THEN kfs[Len(kfs)].value
          ELSE IF found.beforeIndex = found.afterIndex THEN kfs[found.beforeIndex].value
          ELSE interpolate(before.value, after.value,
                           applyEasing(Rat(time - before.time, after.time - before.time),
                                       before.easing))

TrackCall(op, time, result) == [op |-> op, time |-> time, result |-> result]
NoTrackCall == TrackCall("none", 0, NullValue)

AddKeyframe(time, value, easing) ==
  /\ Len(keyframes) < MaxKeyframes
  /\ keyframes' = addKeyframe(keyframes, time, value, easing)
  /\ trackCall' = TrackCall("addKeyframe", time, NullValue)
  /\ UNCHANGED <<smVars, groupVars, restVars>>

RemoveKeyframe(time) ==
  /\ keyframes' = removeKeyframe(keyframes, time)
  /\ trackCall' = TrackCall("removeKeyframe", time, NullValue)
  /\ UNCHANGED <<smVars, groupVars, restVars>>

GetValueAtTime(time) ==
  /\ trackCall' = TrackCall("getValueAtTime", time, getValueAtTime(keyframes, time))
  /\ UNCHANGED <<keyframes, smVars, groupVars, restVars>>

\* keyframe values of other kinds than number: records with a numeric and a
\* non-numeric field, a string
RecordValues ==
  {Obj([x |-> Number(0), label |-> Str("a")]), Obj([x |-> Number(10), label |-> Str("b")])}
MixedValues == RecordValues \cup {Str("on"), Number(10)}

NextMixedTrack ==
  \/ \E time \in Times, value \in MixedValues, easing \in Easings :
        AddKeyframe(time, value, easing)
  \/ \E time \in Times : RemoveKeyframe(time)
  \/ \E time \in QueryTimes : GetValueAtTime(time)

\* easings of a track that uses a cubic-bezier descriptor: "bezier" stands for
\* { bezier: [0.42, 0, 1, 1] }, whose curve lies below the straight line on the
\* whole of (0, 1) (y - x = -1.26 s (1 - s)^2 at curve parameter s)
BezierEasings == {"linear", "bezier"}

NextBezierTrack ==
  \/ \E time \in Times, value \in Values, easing \in BezierEasings :
        AddKeyframe(time, value, easing)
  \/ \E time \in Times : RemoveKeyframe(time)
  \/ \E time \in QueryTimes : GetValueAtTime(time)

NextTrack ==
  \/ \E time \in Times, value \in Values, easing \in Easings : AddKeyframe(time, value, easing)
  \/ \E time \in Times : RemoveKeyframe(time)
  \/ \E time \in QueryTimes : GetValueAtTime(time)


\* ------------------------------------------------------------ RivExporter
\* A project is modelled by one artboard whose shapes form a tree of values:
\* a shape carries the fields its constructor sets and, for a Group, the list
\* of its children, each with parent naming the group.
ShapeClasses == {"Rectangle", "Ellipse", "Path", "Group"}
ShapeIds == {"s1", "s2"}

\* new Rectangle / Ellipse / Path / Group (id, name): the Shape constructor's
\* defaults and the fields of the variant
NewShape(class, id) ==
  LET base == [class |-> class, id |-> id, name |-> id, transform |-> "identity",
               fill |-> "solid", stroke |-> Null, opacity |-> 1, visible |-> TRUE,
               locked |-> FALSE, parent |-> Null]
  IN CASE class = "Rectangle" -> base @@ [width |-> 100, height |-> 100, cornerRadius |-> 0]
       [] class = "Ellipse" -> base @@ [radiusX |-> 50, radiusY |-> 50]
       [] class = "Path" -> base @@ [pathData |-> ""]
       [] class = "Group" -> base @@ [children |-> <<>>]

NewArtboard == [id |-> "ab", name |-> "ab", width |-> 800, height |-> 600, shapes |-> <<>>]

\* Group.addChild on the tree of values: the back-reference and the push
addChildValue(group, shape) ==
  [group EXCEPT !.children = Append(@, [shape EXCEPT !.parent = group.id])]

\* the number of shapes in the subtree of shape
RECURSIVE ShapeCount(_)
ShapeCount(shape) ==
  IF shape.class = "Group"
  THEN 1 + (LET RECURSIVE Sum(_)
                Sum(i) == IF i = 0 THEN 0 ELSE ShapeCount(shape.children[i]) + Sum(i - 1)
            IN Sum(Len(shape.children)))
  ELSE 1

TotalShapes(ab) ==
  LET RECURSIVE Sum(_)
      Sum(i) == IF i = 0 THEN 0 ELSE ShapeCount(ab.shapes[i]) + Sum(i - 1)
  IN Sum(Len(ab.shapes))

\* RivExporter.serializeShape: the record of a shape, a function from the keys
\* it emits to their values
serializeShape(shape) ==
  LET base == [id |-> shape.id, name |-> shape.name, transform |-> shape.transform,
               opacity |-> shape.opacity, visible |-> shape.visible]
  IN CASE shape.class = "Rectangle" ->
            base @@ [type |-> "rectangle", width |-> shape.width, height |-> shape.height,
                     cornerRadius |-> shape.cornerRadius, fill |-> shape.fill,
                     stroke |-> shape.stroke]
       [] shape.class = "Ellipse" ->
            base @@ [type |-> "ellipse", radiusX |-> shape.radiusX, radiusY |-> shape.radiusY,
                     fill |-> shape.fill, stroke |-> shape.stroke]
       [] shape.class = "Path" ->
            base @@ [type |-> "path", pathData |-> shape.pathData, fill |-> shape.fill,
                     stroke |-> shape.stroke]
       [] OTHER -> base

\* RivExporter.serializeArtboard
serializeArtboard(ab) ==
  [id |-> ab.id, name |-> ab.name, width |-> ab.width, height |-> ab.height,
   shapes |-> [i \in 1..Len(ab.shapes) |-> serializeShape(ab.shapes[i])]]

\* RivExporter.exportToRiv for a project of one artboard, no animation, state
\* machine or asset: the document handed to JSON.stringify (stringify and the
\* UTF-8 encoding lose nothing of it: no value in it is undefined)
exportToRiv(ab) ==
  [version |-> "1.0", artboards |-> <<serializeArtboard(ab)>>, animations |-> <<>>,
   stateMachines |-> <<>>, assets |-> <<>>]

NotExported == [done |-> FALSE, doc |-> <<>>]

\* artboard.shapes.push(new Class(id, ...))
ArtboardPush(class, id) ==
  /\ TotalShapes(artboard) < MaxShapes
  /\ artboard' = [artboard EXCEPT !.shapes = Append(@, NewShape(class, id))]
  /\ exported' = NotExported
  /\ UNCHANGED <<smVars, groupVars, trackVars, animVars, cloneVars, sceneVars, storeVars>>

\* artboard.shapes[i].addChild(new Class(id, ...)) for a root group
GroupAddNew(i, class, id) ==
  /\ TotalShapes(artboard) < MaxShapes
  /\ artboard.shapes[i].class = "Group"
  /\ artboard' = [artboard EXCEPT !.shapes[i] = addChildValue(@, NewShape(class, id))]
  /\ exported' = NotExported
  /\ UNCHANGED <<smVars, groupVars, trackVars, animVars, cloneVars, sceneVars, storeVars>>

\* artboard.shapes[i].locked = !locked
ToggleLocked(i) ==
  /\ artboard' = [artboard EXCEPT !.shapes[i].locked = ~@]
  /\ exported' = NotExported
  /\ UNCHANGED <<smVars, groupVars, trackVars, animVars, cloneVars, sceneVars, storeVars>>

ExportToRiv ==
  /\ exported' = [done |-> TRUE, doc |-> exportToRiv(artboard)]
  /\ UNCHANGED <<artboard, smVars, groupVars, trackVars, animVars, cloneVars, sceneVars, storeVars>>

NextExport ==
  \/ \E class \in ShapeClasses, id \in ShapeIds : ArtboardPush(class, id)
  \/ \E i \in 1..Len(artboard.shapes), class \in ShapeClasses, id \in ShapeIds :
        GroupAddNew(i, class, id)
  \/ \E i \in 1..Len(artboard.shapes) : ToggleLocked(i)
  \/ ExportToRiv

\* ------------------------------------------------------------ Animation
\* The values of a shape's property tree are the tagged values of the tracks.

\* JavaScript ToBoolean
ToBoolean(v) ==
  CASE v.k = "object" -> TRUE
    [] v.k = "number" -> v.num # 0
    [] v.k = "string" -> v.s # ""
    [] v.k = "boolean" -> v.b
    [] OTHER -> FALSE

\* JavaScript v[key] for v not null or undefined (no path segment of the
\* model names a property of Object.prototype or of a primitive's wrapper)
Get(v, key) ==
  IF v.k = "object" /\ key \in DOMAIN v.f THEN v.f[key] ELSE UndefinedValue

\* mutant: an assignment that leaves the object with the assigned key alone
PutAlone(v, key, value) ==
  IF v.k = "object"
  THEN [obj |-> Obj([x \in {key} |-> value]), threw |-> FALSE]
  ELSE [obj |-> v, threw |-> TRUE]

\* JavaScript v[key] = value in strict code (class bodies are strict): a
\* TypeError when v is a primitive
Put(v, key, value) ==
  IF v.k = "object"
  THEN [obj |-> Obj([x \in DOMAIN v.f \cup {key} |-> IF x = key THEN value ELSE v.f[x]]),
        threw |-> FALSE]
  ELSE [obj |-> v, threw |-> TRUE]

\* a shape as the Shape constructor leaves it
NewShapeObject ==
  Obj([id |-> Str("s1"), name |-> Str(""),
       transform |-> Obj([position |-> Obj([x |-> Number(0), y |-> Number(0)]),
                          scale |-> Obj([x |-> Number(1), y |-> Number(1)]),
                          rotation |-> Number(0),
                          pivot |-> Obj([x |-> Number(0), y |-> Number(0)])]),
       fill |-> Obj([type |-> Str("solid"),
                     color |-> Obj([r |-> Number(128), g |-> Number(128),
                                    b |-> Number(128), a |-> Number(1)])]),
       stroke |-> NullValue, opacity |-> Number(1), visible |-> Boolean(TRUE),
       locked |-> Boolean(FALSE), parent |-> NullValue])

\* property paths given to addTrack, already split at the dots
Paths ==
  {<<"opacity">>, <<"transform", "position", "x">>, <<"stroke", "width">>,
   <<"custom", "a", "b">>, <<"opacity", "x">>, <<"visible", "x">>, <<"id", "x">>}

AnimTimes == {0, 100}
ApplyTimes == {0, 50, 100}

\* Animation.setPropertyValue from the object current on: the object after the
\* walk (what was created before a throw stays) and whether a TypeError was thrown
RECURSIVE setPropertyValue(_, _, _)
setPropertyValue(current, parts, value) ==
  IF Len(parts) = 1 THEN Put(current, parts[1], value)
  ELSE LET created == IF ToBoolean(Get(current, parts[1]))
                      THEN [obj |-> current, threw |-> FALSE]
                      ELSE Put(current, parts[1], Obj(<<>>))
       IN IF created.threw THEN created
          ELSE LET next == Get(created.obj, parts[1])
                   rest == setPropertyValue(next, Tail(parts), value)
               IN IF next.k = "object"
                  THEN [obj |-> Put(created.obj, parts[1], rest.obj).obj, threw |-> rest.threw]
                  ELSE [obj |-> created.obj, threw |-> rest.threw]

\* Animation.addTrack: Map.set keeps the position of a key it already holds
addTrack(tracks, property) ==
  IF \E i \in 1..Len(tracks) : tracks[i].property = property
  THEN [i \in 1..Len(tracks) |->
          IF tracks[i].property = property THEN [tracks[i] EXCEPT !.keyframes = <<>>]
          ELSE tracks[i]]
  ELSE Append(tracks, [property |-> property, keyframes |-> <<>>])

\* Animation.applyToShape from entry i of the Map on: an exception ends the forEach
RECURSIVE applyToShape(_, _, _, _)
applyToShape(tracks, shape, time, i) ==
  IF i > Len(tracks) THEN [obj |-> shape, threw |-> FALSE]
  ELSE LET value == getValueAtTime(tracks[i].keyframes, time) IN
       IF value = NullValue THEN applyToShape(tracks, shape, time, i + 1)
       ELSE LET set == setPropertyValue(shape, tracks[i].property, value) IN
            IF set.threw THEN set ELSE applyToShape(tracks, set.obj, time, i + 1)

ApplyCall(op, time, threw) == [op |-> op, time |-> time, threw |-> threw]
NoApplyCall == ApplyCall("none", 0, FALSE)

Query(op, track, time, result) == [op |-> op, track |-> track, time |-> time, result |-> result]
NoQuery == Query("none", 0, 0, NullValue)

AddTrack(property) ==
  /\ \/ Len(animTracks) < MaxTracks
     \/ \E i \in 1..Len(animTracks) : animTracks[i].property = property
  /\ animTracks' = addTrack(animTracks, property)
  /\ applyCall' = NoApplyCall
  /\ queried' = NoQuery
  /\ UNCHANGED <<animShape, smVars, groupVars, trackVars, exportVars, cloneVars, sceneVars,
                 storeVars>>

\* animation.getTrack(property).addKeyframe(time, value, easing)
TrackAddKeyframe(i, time, value, easing) ==
  /\ Len(animTracks[i].keyframes) < MaxTrackKeyframes
  /\ animTracks' = [animTracks EXCEPT ![i].keyframes = addKeyframe(@, time, value, easing)]
  /\ applyCall' = NoApplyCall
  /\ queried' = NoQuery
  /\ UNCHANGED <<animShape, smVars, groupVars, trackVars, exportVars, cloneVars, sceneVars,
                 storeVars>>

ApplyToShape(time) ==
  LET applied == applyToShape(animTracks, animShape, time, 1) IN
  /\ animShape' = applied.obj
  /\ applyCall' = ApplyCall("applyToShape", time, applied.threw)
  /\ UNCHANGED <<animTracks, queried, smVars, groupVars, trackVars, exportVars, cloneVars,
                 sceneVars, storeVars>>

\* animation.getTrack(property).getValueAtTime(time) on the track at entry i
TrackGetValueAtTime(i, time) ==
  /\ queried' = Query("getValueAtTime", i, time, getValueAtTime(animTracks[i].keyframes, time))
  /\ UNCHANGED <<animTracks, animShape, applyCall, smVars, groupVars, trackVars, exportVars,
                 cloneVars, sceneVars, storeVars>>

NextApply ==
  \/ \E property \in Paths : AddTrack(property)
  \/ \E i \in 1..Len(animTracks), time \in AnimTimes, value \in Values, easing \in Easings :
        TrackAddKeyframe(i, time, value, easing)
  \/ \E time \in ApplyTimes : ApplyToShape(time)

\* the calls on an animation with the queries of its tracks, over fewer paths:
\* through a null intermediate, an absent one and a truthy primitive
ResolvePaths == {<<"stroke", "width">>, <<"custom", "a", "b">>, <<"visible", "x">>}
ResolveTimes == {0, 50}

NextResolve ==
  \/ \E property \in ResolvePaths : AddTrack(property)
  \/ \E i \in 1..Len(animTracks) : TrackAddKeyframe(i, 0, Number(10), "linear")
  \/ \E time \in ResolveTimes : ApplyToShape(time)
  \/ \E i \in 1..Len(animTracks), time \in ResolveTimes : TrackGetValueAtTime(i, time)

\* ------------------------------------------------------------ Shape.clone
\* Objects live in a heap, a sequence indexed by address; a field holds a
\* primitive value or a reference, so that two shapes can share an object.
Ref(a) == [k |-> "ref", a |-> a]

\* the heap after allocating the objects objs, in order
Alloc(h, objs) == h \o objs

\* the transform, fill and color objects the Shape constructor creates, at the
\* addresses from a on (transform, position, scale, pivot, fill, color)
ConstructorObjects(a) ==
  << [position |-> Ref(a + 1), scale |-> Ref(a + 2), rotation |-> Number(0),
      pivot |-> Ref(a + 3)],
     [x |-> Number(0), y |-> Number(0)],
     [x |-> Number(1), y |-> Number(1)],
     [x |-> Number(0), y |-> Number(0)],
     [type |-> Str("solid"), color |-> Ref(a + 5)],
     [r |-> Number(128), g |-> Number(128), b |-> Number(128), a |-> Number(1)] >>

\* new Class(id, name) on heap h: the shape and the heap
Construct(h, class, id) ==
  [shape |-> [class |-> class, id |-> id, transform |-> Ref(Len(h) + 1),
              fill |-> Ref(Len(h) + 5), stroke |-> NullValue, opacity |-> Number(1)],
   heap |-> Alloc(h, ConstructorObjects(Len(h) + 1))]

\* Rectangle.clone, Ellipse.clone, Path.clone and Group.clone (without the
\* children of a Group): { ...object } is a new object with the same field
\* values, references included; Group.clone copies neither fill nor stroke
clone(h, shape) ==
  LET made == Construct(h, shape.class, shape.id \o "_clone")
      transformAt == Len(made.heap) + 1
      withTransform == Alloc(made.heap, <<made.heap[shape.transform.a]>>)
  IN IF shape.class = "Group"
     THEN [shape |-> [made.shape EXCEPT !.transform = Ref(transformAt),
                                        !.opacity = shape.opacity],
           heap |-> withTransform]
     ELSE LET withFill == Alloc(withTransform, <<withTransform[shape.fill.a]>>)
              hasStroke == shape.stroke.k = "ref"
              withStroke == IF hasStroke
                            THEN Alloc(withFill, <<withFill[shape.stroke.a]>>)
                            ELSE withFill
          IN [shape |-> [made.shape EXCEPT !.transform = Ref(transformAt),
                                           !.fill = Ref(transformAt + 1),
                                           !.stroke = IF hasStroke THEN Ref(transformAt + 2)
                                                      ELSE NullValue,
                                           !.opacity = shape.opacity],
              heap |-> withStroke]

\* the object a path of field names leads to from a shape's field, or
\* NullValue when the walk meets null
RECURSIVE Walk(_, _, _)
Walk(h, v, parts) ==
  IF v.k # "ref" THEN NullValue
  ELSE IF Len(parts) = 0 THEN v
  ELSE Walk(h, h[v.a][parts[1]], Tail(parts))

\* assignments a caller makes through a shape: the objects walked, the field
\* assigned, the value
Mutations ==
  { [path |-> <<"transform", "position">>, field |-> "x", value |-> Number(5)],
    [path |-> <<"transform">>, field |-> "rotation", value |-> Number(1)],
    [path |-> <<"fill", "color">>, field |-> "r", value |-> Number(255)],
    [path |-> <<"fill">>, field |-> "type", value |-> Str("none")],
    [path |-> <<"stroke">>, field |-> "width", value |-> Number(2)] }

CloneCall(op, who) == [op |-> op, who |-> who]
NoCloneCall == CloneCall("none", 0)

\* const source = new Class('s1', ...)
NewSource(class) ==
  /\ cloneShapes = <<>>
  /\ LET made == Construct(heap, class, "s1") IN
       /\ heap' = made.heap
       /\ cloneShapes' = <<made.shape>>
  /\ cloneCall' = CloneCall("new", 1)
  /\ UNCHANGED <<smVars, groupVars, trackVars, exportVars, animVars, sceneVars, storeVars>>

\* const cloned = source.clone()
Clone ==
  /\ Len(cloneShapes) >= 1
  /\ Len(cloneShapes) - 1 < MaxClones
  /\ LET made == clone(heap, cloneShapes[1]) IN
       /\ heap' = made.heap
       /\ cloneShapes' = Append(cloneShapes, made.shape)
  /\ cloneCall' = CloneCall("clone", Len(cloneShapes) + 1)
  /\ UNCHANGED <<smVars, groupVars, trackVars, exportVars, animVars, sceneVars, storeVars>>

\* shape.stroke = { color: {...}, width: 1, cap: 'butt', join: 'miter' }
SetStroke(who) ==
  /\ cloneShapes[who].stroke = NullValue
  /\ heap' = Alloc(heap, << [color |-> Ref(Len(heap) + 2), width |-> Number(1),
                             cap |-> Str("butt"), join |-> Str("miter")],
                            [r |-> Number(0), g |-> Number(0), b |-> Number(0),
                             a |-> Number(1)] >>)
  /\ cloneShapes' = [cloneShapes EXCEPT ![who].stroke = Ref(Len(heap) + 1)]
  /\ cloneCall' = CloneCall("set", who)
  /\ UNCHANGED <<smVars, groupVars, trackVars, exportVars, animVars, sceneVars, storeVars>>

\* shape.<path>.<field> = value, e.g. shape.transform.position.x = 5
Mutate(who, m) ==
  LET target == Walk(heap, cloneShapes[who][m.path[1]], Tail(m.path)) IN
  /\ target # NullValue
  /\ heap[target.a][m.field] # m.value
  /\ heap' = [heap EXCEPT ![target.a][m.field] = m.value]
  /\ cloneCall' = CloneCall("set", who)
  /\ UNCHANGED <<cloneShapes, smVars, groupVars, trackVars, exportVars, animVars, sceneVars,
                 storeVars>>

NextClone ==
  \/ \E class \in ShapeClasses : NewSource(class)
  \/ Clone
  \/ \E who \in 1..Len(cloneShapes) : SetStroke(who)
  \/ \E who \in 1..Len(cloneShapes), m \in Mutations : Mutate(who, m)

\* ------------------------------------------------------------ Group.clone
\* The objects a clone() call creates form a tree; a node is named by its
\* position at, the indexes leading to it from the returned group.  of is the
\* shape the node was cloned from.
RangeError == [k |-> "RangeError"]

\* shape.clone() for a shape of the scene, called at nesting depth depth with
\* the new parent parentRef (null for the outermost call, then set by
\* cloned.addChild).  A chain of calls longer than the number of shapes runs
\* through a cycle of children lists and never returns: the engine ends it with
\* a RangeError (call stack size exceeded).
RECURSIVE cloneShape(_, _, _, _, _)
cloneShape(scene, shape, at, parentRef, depth) ==
  IF depth > Cardinality(Shapes) THEN RangeError
  ELSE IF shape \notin Groups
  THEN [k |-> "shape", of |-> shape, id |-> shape \o "_clone", at |-> at,
        parent |-> parentRef, children |-> <<>>]
  ELSE LET kids == [i \in 1..Len(scene.children[shape]) |->
                      cloneShape(scene, scene.children[shape][i], Append(at, i),
                                 Ref(at), depth + 1)]
       IN IF \E i \in 1..Len(kids) : kids[i] = RangeError THEN RangeError
          ELSE [k |-> "shape", of |-> shape, id |-> shape \o "_clone", at |-> at,
                parent |-> parentRef, children |-> kids]

\* const copy = g.clone()
GroupClone(g) ==
  /\ cloned' = cloneShape(Scene, g, <<>>, NullValue, 1)
  /\ groupCall' = GroupCall("clone", g, g, FALSE)
  /\ UNCHANGED <<children, parent, look, ctx, smVars, trackVars, exportVars, animVars, cloneVars,
                 storeVars>>

NextGroupClone ==
  \/ NextGroup
  \/ \E g \in Groups : GroupClone(g)

\* ------------------------------------------------------------ Shape.render
\* A CanvasRenderingContext2D as far as opacity goes: globalAlpha, the stack
\* of save(), and the drawings made, each with the globalAlpha it was made
\* under and the position at of the shape drawn (the indexes leading to it
\* from the group rendered).
NewContext == [globalAlpha |-> Number(1), saved |-> <<>>, drawn |-> <<>>, error |-> FALSE]

Opacities == {Number(1), Rat(1, 2)}

\* ctx.save()
save(c) == [c EXCEPT !.saved = Append(@, c.globalAlpha)]

\* ctx.restore()
restore(c) ==
  [c EXCEPT !.globalAlpha = c.saved[Len(c.saved)],
            !.saved = SubSeq(c.saved, 1, Len(c.saved) - 1)]

\* shape.render(ctx) for a shape of the scene at nesting depth depth:
\* Rectangle.render assigns its opacity to globalAlpha, Group.render multiplies
\* globalAlpha by its opacity and renders the children.  A chain of calls
\* through a cycle of children lists ends with a RangeError, which leaves the
\* saved states unrestored.
RECURSIVE render(_, _, _, _, _)
render(scene, looks, shape, c, at) ==
  IF c.error THEN c
  ELSE IF Len(at) >= Cardinality(Shapes) THEN [c EXCEPT !.error = TRUE]
  ELSE IF ~looks[shape].visible THEN c
  ELSE IF shape \notin Groups
  THEN LET set == [save(c) EXCEPT !.globalAlpha = looks[shape].opacity]
           filled == [set EXCEPT !.drawn = Append(@, [shape |-> shape, at |-> at,
                                                      alpha |-> set.globalAlpha])]
       IN restore(filled)
  ELSE LET set == [save(c) EXCEPT !.globalAlpha = RatMul(@, looks[shape].opacity)]
           RECURSIVE forEach(_, _)
           forEach(cc, i) ==
             IF i > Len(scene.children[shape]) THEN cc
             ELSE forEach(render(scene, looks, scene.children[shape][i], cc, Append(at, i)),
                          i + 1)
           after == forEach(set, 1)
       IN IF after.error THEN after ELSE restore(after)

\* shape.opacity = value
SetOpacity(shape, value) ==
  /\ look[shape].opacity # value
  /\ look' = [look EXCEPT ![shape].opacity = value]
  /\ groupCall' = GroupCall("set", "g1", shape, FALSE)
  /\ UNCHANGED <<children, parent, cloned, ctx, smVars, trackVars, exportVars, animVars,
                 cloneVars, storeVars>>

\* shape.visible = !shape.visible
ToggleVisible(shape) ==
  /\ look' = [look EXCEPT ![shape].visible = ~@]
  /\ groupCall' = GroupCall("set", "g1", shape, FALSE)
  /\ UNCHANGED <<children, parent, cloned, ctx, smVars, trackVars, exportVars, animVars,
                 cloneVars, storeVars>>

\* g.render(ctx) on a fresh context
Render(g) ==
  /\ ctx' = render(Scene, look, g, NewContext, <<>>)
  /\ groupCall' = GroupCall("render", g, g, FALSE)
  /\ UNCHANGED <<children, parent, cloned, look, smVars, trackVars, exportVars, animVars,
                 cloneVars, storeVars>>

NextRender ==
  \/ \E g \in Groups, shape \in Shapes : AddChild(g, shape)
  \/ \E shape \in Shapes, value \in Opacities : SetOpacity(shape, value)
  \/ \E shape \in Shapes : ToggleVisible(shape)
  \/ \E g \in Groups : Render(g)

\* ------------------------------------------------------------ useEditorStore
\* The state of the store; currentTool, zoom and pan, which no call below
\* reads or writes, are left out.  historyIndex is the JavaScript index (-1
\* when there is no history), history[historyIndex + 1] the snapshot it names.
NewStore ==
  [shapes |-> <<>>, selectedShapes |-> <<>>, currentFrame |-> 0, isPlaying |-> FALSE,
   history |-> <<>>, historyIndex |-> -1, canUndo |-> FALSE, canRedo |-> FALSE]

\* the number of frames of the timeline: (currentFrame + 1) % 120
FrameCount == 120

StoreCall(op, index) == [op |-> op, index |-> index]
NoStoreCall == StoreCall("none", -1)

\* one run of the animate closure: nothing when playback is off, else the
\* frame advances and the closure is handed to requestAnimationFrame again
animate(st, scheduled) ==
  IF ~st.isPlaying THEN [store |-> st, scheduled |-> scheduled]
  ELSE [store |-> [st EXCEPT !.currentFrame = (st.currentFrame + 1) % FrameCount],
        scheduled |-> scheduled + 1]

\* setIsPlaying: the flag is set, and for true a new animate closure runs at once
setIsPlaying(st, scheduled, playing) ==
  IF playing THEN animate([st EXCEPT !.isPlaying = TRUE], scheduled)
  ELSE [store |-> [st EXCEPT !.isPlaying = FALSE], scheduled |-> scheduled]

\* an animation frame of the browser: the n callbacks handed over since the
\* last one run in turn; what they hand over waits for the next frame
RECURSIVE runCallbacks(_, _, _)
runCallbacks(st, n, scheduled) ==
  IF n = 0 THEN [store |-> st, scheduled |-> scheduled]
  ELSE LET ran == animate(st, scheduled) IN runCallbacks(ran.store, n - 1, ran.scheduled)

SetIsPlaying(playing) ==
  /\ playing => pending < MaxPending
  /\ store' = setIsPlaying(store, pending, playing).store
  /\ pending' = setIsPlaying(store, pending, playing).scheduled
  /\ storeCall' = StoreCall("setIsPlaying", store.historyIndex)
  /\ UNCHANGED <<smVars, groupVars, trackVars, exportVars, animVars, cloneVars, sceneVars>>

AnimationFrame ==
  /\ pending > 0
  /\ store' = runCallbacks(store, pending, 0).store
  /\ pending' = runCallbacks(store, pending, 0).scheduled
  /\ storeCall' = StoreCall("frame", store.historyIndex)
  /\ UNCHANGED <<smVars, groupVars, trackVars, exportVars, animVars, cloneVars, sceneVars>>

NextPlayback ==
  \/ \E playing \in BOOLEAN : SetIsPlaying(playing)
  \/ AnimationFrame

\* ---- useEditorStore: shapes, selection and history
\* the cap on history: if (state.history.length > 50)
HistoryLimit == 50

StoreIds == {"a", "b"}
StoreShape(id, x) == [id |-> id, x |-> x]
StoreShapes == {StoreShape(id, 0) : id \in StoreIds}
Updates == {[x |-> 0], [x |-> 1]}

\* shapes.find(s => s.id === id): the index of the first match, 0 for undefined
find(shapes, id) ==
  IF \E i \in 1..Len(shapes) : shapes[i].id = id
  THEN CHOOSE i \in 1..Len(shapes) :
         shapes[i].id = id /\ \A j \in 1..(i - 1) : shapes[j].id # id
  ELSE 0

\* pushHistory as the source has it but for the index, which stays where the
\* push put it when the oldest snapshot is shifted out
pushHistoryKeepIndex(st) ==
  LET currentState == [shapes |-> st.shapes, selectedShapes |-> st.selectedShapes]
      pushed == Append(SubSeq(st.history, 1, st.historyIndex + 1), currentState)
      over == Len(pushed) > HistoryLimit
      history == IF over THEN Tail(pushed) ELSE pushed
      historyIndex == Len(pushed) - 1
  IN [st EXCEPT !.history = history, !.historyIndex = historyIndex,
                !.canUndo = historyIndex > 0,
                !.canRedo = historyIndex < Len(history) - 1]

\* pushHistory: a snapshot by value of shapes and selectedShapes replaces what
\* lies after historyIndex; beyond 50 snapshots the oldest is shifted out
pushHistory(st) ==
  LET currentState == [shapes |-> st.shapes, selectedShapes |-> st.selectedShapes]
      pushed == Append(SubSeq(st.history, 1, st.historyIndex + 1), currentState)
      over == Len(pushed) > HistoryLimit
      history == IF over THEN Tail(pushed) ELSE pushed
      historyIndex == IF over THEN Len(pushed) - 2 ELSE Len(pushed) - 1
  IN [st EXCEPT !.history = history, !.historyIndex = historyIndex,
                !.canUndo = historyIndex > 0,
                !.canRedo = historyIndex < Len(history) - 1]

addShape(st, shape) ==
  pushHistory([st EXCEPT !.shapes = Append(st.shapes, shape),
                         !.selectedShapes = <<shape.id>>])

\* Object.assign(shape, updates) on the first shape with the id; pushHistory
\* runs whether or not there is one
updateShape(st, id, updates) ==
  LET i == find(st.shapes, id) IN
  pushHistory(IF i = 0 THEN st
              ELSE [st EXCEPT !.shapes = [st.shapes EXCEPT ![i] = updates @@ st.shapes[i]]])

deleteShape(st, id) ==
  pushHistory([st EXCEPT !.shapes = SelectSeq(st.shapes, LAMBDA s : s.id # id),
                         !.selectedShapes = SelectSeq(st.selectedShapes, LAMBDA sid : sid # id)])

selectShape(st, id, multiSelect) ==
  IF multiSelect
  THEN IF \E i \in 1..Len(st.selectedShapes) : st.selectedShapes[i] = id
       THEN [st EXCEPT !.selectedShapes = SelectSeq(st.selectedShapes, LAMBDA sid : sid # id)]
       ELSE [st EXCEPT !.selectedShapes = Append(st.selectedShapes, id)]
  ELSE [st EXCEPT !.selectedShapes = <<id>>]

clearSelection(st) == [st EXCEPT !.selectedShapes = <<>>]

\* undo as the source has it but for canUndo, which is left as it was
undoStaleFlag(st) ==
  IF st.historyIndex <= 0 THEN st
  ELSE LET historyIndex == st.historyIndex - 1
           prevState == st.history[historyIndex + 1]
       IN [st EXCEPT !.historyIndex = historyIndex,
                     !.shapes = prevState.shapes,
                     !.selectedShapes = prevState.selectedShapes,
                     !.canRedo = TRUE]

undo(st) ==
  IF st.historyIndex <= 0 THEN st
  ELSE LET historyIndex == st.historyIndex - 1
           prevState == st.history[historyIndex + 1]
       IN [st EXCEPT !.historyIndex = historyIndex,
                     !.shapes = prevState.shapes,
                     !.selectedShapes = prevState.selectedShapes,
                     !.canUndo = historyIndex > 0,
                     !.canRedo = TRUE]

redo(st) ==
  IF st.historyIndex >= Len(st.history) - 1 THEN st
  ELSE LET historyIndex == st.historyIndex + 1
           nextState == st.history[historyIndex + 1]
       IN [st EXCEPT !.historyIndex = historyIndex,
                     !.shapes = nextState.shapes,
                     !.selectedShapes = nextState.selectedShapes,
                     !.canUndo = TRUE,
                     !.canRedo = historyIndex < Len(st.history) - 1]

StoreStep(op, next) ==
  /\ store' = next
  /\ storeCall' = StoreCall(op, store.historyIndex)
  /\ UNCHANGED <<pending, smVars, groupVars, trackVars, exportVars, animVars, cloneVars,
                 sceneVars>>

AddShape(shape) == StoreStep("addShape", addShape(store, shape))
UpdateShape(id, updates) == StoreStep("updateShape", updateShape(store, id, updates))
DeleteShape(id) == StoreStep("deleteShape", deleteShape(store, id))
SelectShape(id, multiSelect) == StoreStep("selectShape", selectShape(store, id, multiSelect))
ClearSelection == StoreStep("clearSelection", clearSelection(store))
Undo == StoreStep("undo", undo(store))
Redo == StoreStep("redo", redo(store))

\* an editing session short enough to let shapes and selection vary freely
NextStore ==
  \/ /\ store.historyIndex + 1 < MaxSnapshots
     /\ \/ \E shape \in StoreShapes : Len(store.shapes) < MaxStoreShapes /\ AddShape(shape)
        \/ \E id \in StoreIds, updates \in Updates : UpdateShape(id, updates)
        \/ \E id \in StoreIds : DeleteShape(id)
  \/ \E id \in StoreIds, multiSelect \in BOOLEAN : SelectShape(id, multiSelect)
  \/ ClearSelection
  \/ Undo
  \/ Redo

\* an editing session of any length: one shape is added to the empty canvas,
\* and the later mutations name a shape that is not there or assign what the
\* shape already has, so that the history can grow past its cap
NextHistory ==
  \/ store.shapes = <<>> /\ AddShape(StoreShape("a", 0))
  \/ UpdateShape("a", [x |-> 0])
  \/ DeleteShape("b")
  \/ Undo
  \/ Redo

\* ---- actions of one machine
SmCall(op, event, ret, idx) == [op |-> op, event |-> event, ret |-> ret, idx |-> idx]
NoCall == SmCall("none", NoEvent, Null, 0)

AddState(id) ==
  /\ sm' = addState(sm, id)
  /\ smCall' = SmCall("addState", NoEvent, Null, 0)
  /\ UNCHANGED <<sm2, ret2, groupVars, trackVars, restVars>>

AddTransition(from, to, triggers, conditions) ==
  /\ Len(sm.transitions) < MaxTransitions
  /\ sm' = addTransition(sm, from, to, triggers, conditions)
  /\ smCall' = SmCall("addTransition", NoEvent, Null, 0)
  /\ UNCHANGED <<sm2, ret2, groupVars, trackVars, restVars>>

SetParameter(name, value) ==
  /\ sm' = setParameter(sm, name, value)
  /\ smCall' = SmCall("setParameter", NoEvent, Null, 0)
  /\ UNCHANGED <<sm2, ret2, groupVars, trackVars, restVars>>

CheckTransitions(event) ==
  /\ sm' = checkTransitions(sm, event).sm
  /\ smCall' = SmCall("checkTransitions", event, checkTransitions(sm, event).ret,
                       checkTransitions(sm, event).idx)
  /\ UNCHANGED <<sm2, ret2, groupVars, trackVars, restVars>>

Init ==
  /\ sm = NewStateMachine
  /\ smCall = NoCall
  /\ sm2 = NewStateMachine
  /\ ret2 = Null
  /\ children = NewScene.children
  /\ parent = NewScene.parent
  /\ groupCall = NoGroupCall
  /\ keyframes = <<>>
  /\ trackCall = NoTrackCall
  /\ artboard = NewArtboard
  /\ exported = NotExported
  /\ animTracks = <<>>
  /\ animShape = NewShapeObject
  /\ applyCall = NoApplyCall
  /\ queried = NoQuery
  /\ heap = <<>>
  /\ cloneShapes = <<>>
  /\ cloneCall = NoCloneCall
  /\ cloned = NullValue
  /\ look = [shape \in Shapes |-> [opacity |-> Number(1), visible |-> TRUE]]
  /\ ctx = NewContext
  /\ store = NewStore
  /\ pending = 0
  /\ storeCall = NoStoreCall

Next ==
  \/ \E id \in StateIds : AddState(id)
  \/ \E from \in StateIds, to \in StateIds, triggers \in TriggerLists,
        conditions \in ConditionLists : AddTransition(from, to, triggers, conditions)
  \/ \E name \in ParamNames, value \in ParamValues : SetParameter(name, value)
  \/ \E event \in Events : CheckTransitions(event)

Spec == Init /\ [][Next]_vars

\* ---- one machine whose transitions carry a condition each, over parameters
\* of every kind and every operator of the switch, and one it does not know
Operators == {"==", "!=", ">", "<", ">=", "<=", "~="}
KindValues == {Num(1), Bool(TRUE), Digit(1)}
OperatorLists == {<<>>} \cup {<<Condition("p", operator, Num(0))>> : operator \in Operators}

NextCond ==
  \/ \E to \in StateIds, conditions \in OperatorLists :
        AddTransition("entry", to, <<>>, conditions)
  \/ \E name \in ParamNames, value \in KindValues : SetParameter(name, value)
  \/ CheckTransitions(NoEvent)

SpecCond == Init /\ [][NextCond]_vars

\* ---- two machines fed the same addTransition, setParameter and
\* checkTransitions calls; addState is called on the second one only, so the
\* two differ in their states maps
DetAddState2(id) ==
  /\ sm2' = addState(sm2, id)
  /\ smCall' = SmCall("addState", NoEvent, Null, 0)
  /\ ret2' = Null
  /\ UNCHANGED <<sm, groupVars, trackVars, restVars>>

DetAddTransition(from, to, triggers, conditions) ==
  /\ Len(sm.transitions) < MaxTransitions
  /\ sm' = addTransition(sm, from, to, triggers, conditions)
  /\ sm2' = addTransition(sm2, from, to, triggers, conditions)
  /\ smCall' = SmCall("addTransition", NoEvent, Null, 0)
  /\ ret2' = Null
  /\ UNCHANGED <<groupVars, trackVars, restVars>>

DetSetParameter(name, value) ==
  /\ sm' = setParameter(sm, name, value)
  /\ sm2' = setParameter(sm2, name, value)
  /\ smCall' = SmCall("setParameter", NoEvent, Null, 0)
  /\ ret2' = Null
  /\ UNCHANGED <<groupVars, trackVars, restVars>>

DetCheckTransitions(event) ==
  /\ sm' = checkTransitions(sm, event).sm
  /\ sm2' = checkTransitions(sm2, event).sm
  /\ smCall' = SmCall("checkTransitions", event, checkTransitions(sm, event).ret,
                       checkTransitions(sm, event).idx)
  /\ ret2' = checkTransitions(sm2, event).ret
  /\ UNCHANGED <<groupVars, trackVars, restVars>>

NextDet ==
  \/ \E id \in StateIds : DetAddState2(id)
  \/ \E from \in StateIds, to \in StateIds, triggers \in TriggerLists,
        conditions \in ConditionLists : DetAddTransition(from, to, triggers, conditions)
  \/ \E name \in ParamNames, value \in ParamValues : DetSetParameter(name, value)
  \/ \E event \in Events : DetCheckTransitions(event)

SpecDet == Init /\ [][NextDet]_vars

SpecGroup == Init /\ [][NextGroup]_vars

SpecTrack == Init /\ [][NextTrack]_vars

SpecExport == Init /\ [][NextExport]_vars

SpecApply == Init /\ [][NextApply]_vars

SpecResolve == Init /\ [][NextResolve]_vars

SpecMixedTrack == Init /\ [][NextMixedTrack]_vars

SpecBezierTrack == Init /\ [][NextBezierTrack]_vars

SpecClone == Init /\ [][NextClone]_vars

SpecGroupClone == Init /\ [][NextGroupClone]_vars

SpecRender == Init /\ [][NextRender]_vars

SpecPlayback == Init /\ [][NextPlayback]_vars

SpecStore == Init /\ [][NextStore]_vars

SpecHistory == Init /\ [][NextHistory]_vars

\* ------------------------------------------------- claims: StateMachine
\* "matching" as section 4.3 of the specification words it: the trigger list
\* is empty or holds a trigger matching the given event, and every condition
\* evaluates true
TriggersMatch(transition, event) ==
  \/ Len(transition.triggers) = 0
  \/ event.present /\ triggered(transition, event)

Matches(m, transition, event) ==
  /\ transition.from = m.currentState
  /\ TriggersMatch(transition, event)
  /\ conditionsMet(m, transition)

MatchingIndexes(m, event) ==
  {i \in 1..Len(m.transitions) : Matches(m, m.transitions[i], event)}

FirstMatch(m, event) ==
  CHOOSE i \in MatchingIndexes(m, event) : \A j \in MatchingIndexes(m, event) : i <= j

\* C1: a checkTransitions call commits exactly the first transition, in
\* declaration order, whose from is currentState and whose triggers and
\* conditions match: that transition gives the new currentState and the
\* returned id.
C1_FirstMatchWins ==
  [][(smCall'.op = "checkTransitions" /\ MatchingIndexes(sm, smCall'.event) # {})
       => /\ smCall'.idx = FirstMatch(sm, smCall'.event)
          /\ smCall'.ret = sm.transitions[FirstMatch(sm, smCall'.event)].to
          /\ sm'.currentState = smCall'.ret]_vars

\* C2: a committed transition with a non-empty trigger list has a trigger that
\* matches the event of the call; a call with no event commits only
\* transitions without triggers.
C2_TriggerGate ==
  [][(smCall'.op = "checkTransitions" /\ smCall'.idx # 0)
       => TriggersMatch(sm.transitions[smCall'.idx], smCall'.event)]_vars

\* C3: with a matching transition the call sets currentState to its to and
\* returns that id; with no matching transition it returns null and leaves the
\* machine unchanged.
C3_MatchEffect ==
  [][smCall'.op = "checkTransitions"
       => IF MatchingIndexes(sm, smCall'.event) # {}
          THEN /\ smCall'.ret # Null
               /\ sm' = [sm EXCEPT !.currentState = smCall'.ret]
               /\ \E i \in MatchingIndexes(sm, smCall'.event) :
                     sm.transitions[i].to = smCall'.ret
          ELSE smCall'.ret = Null /\ sm' = sm]_vars

\* C1, C2 and C3 restricted to calls that are given an event: the three hold
\* there, so each fails only through calls made without one.
WithEvent_FirstMatchWins ==
  [][(smCall'.op = "checkTransitions" /\ smCall'.event.present
        /\ MatchingIndexes(sm, smCall'.event) # {})
       => /\ smCall'.idx = FirstMatch(sm, smCall'.event)
          /\ smCall'.ret = sm.transitions[FirstMatch(sm, smCall'.event)].to
          /\ sm'.currentState = smCall'.ret]_vars

WithEvent_TriggerGate ==
  [][(smCall'.op = "checkTransitions" /\ smCall'.event.present /\ smCall'.idx # 0)
       => TriggersMatch(sm.transitions[smCall'.idx], smCall'.event)]_vars

WithEvent_MatchEffect ==
  [][(smCall'.op = "checkTransitions" /\ smCall'.event.present)
       => IF MatchingIndexes(sm, smCall'.event) # {}
          THEN /\ smCall'.ret # Null
               /\ sm' = [sm EXCEPT !.currentState = smCall'.ret]
               /\ \E i \in MatchingIndexes(sm, smCall'.event) :
                     sm.transitions[i].to = smCall'.ret
          ELSE smCall'.ret = Null /\ sm' = sm]_vars

\* C4: currentState is always the id of a state in the states map.
C4_CurrentStateExists == sm.currentState \in sm.states

C19_CrossKindFalse ==
  [][(smCall'.op = "checkTransitions" /\ smCall'.idx # 0) =>
       \A i \in 1..Len(sm.transitions[smCall'.idx].conditions) :
         LET condition == sm.transitions[smCall'.idx].conditions[i] IN
         getParameter(sm, condition.parameter).k = condition.value.k]_vars

\* the part of C19 that holds: no committed transition has an == condition
\* (or one with an unknown operator) across kinds; the call itself always returns
CrossKind_EqualsFalse ==
  [][(smCall'.op = "checkTransitions" /\ smCall'.idx # 0) =>
       \A i \in 1..Len(sm.transitions[smCall'.idx].conditions) :
         LET condition == sm.transitions[smCall'.idx].conditions[i] IN
         condition.operator \notin {"!=", ">", "<", ">=", "<="} =>
           getParameter(sm, condition.parameter).k = condition.value.k]_vars

\* a transition with a condition whose operator the switch does not know
UnknownOperator(transition) ==
  \E i \in 1..Len(transition.conditions) :
    transition.conditions[i].operator \notin {"==", "!=", ">", "<", ">=", "<="}

\* the transitions of m that leave the current state, name only known
\* operators and have every condition met
KnownMatches(m, event) ==
  {j \in MatchingIndexes(m, event) : ~UnknownOperator(m.transitions[j])}

\* C20: a transition with a condition of an unknown operator is never
\* committed, and it does not end the scan: when a transition declared in the
\* list matches on known operators, the call commits the first such one.
C20_UnknownOperatorSkipped ==
  [][smCall'.op = "checkTransitions" =>
       /\ smCall'.idx # 0 => ~UnknownOperator(sm.transitions[smCall'.idx])
       /\ KnownMatches(sm, smCall'.event) # {} =>
            /\ smCall'.idx \in KnownMatches(sm, smCall'.event)
            /\ \A j \in KnownMatches(sm, smCall'.event) : smCall'.idx <= j
            /\ sm'.currentState = sm.transitions[smCall'.idx].to]_vars

\* a call that passed over a transition with an unknown operator, declared
\* first and leaving the current state, and committed the one after it
C20_Witness ==
  /\ smCall.op = "checkTransitions"
  /\ smCall.idx = 2
  /\ UnknownOperator(sm.transitions[1])
  /\ sm.transitions[1].from = "entry"
  /\ sm.transitions[1].to = "entry"
  /\ sm.transitions[2].to = "A"
  /\ sm.currentState = "A"

\* C21: a transition whose from or to is not the id of an added state is never
\* committed by a checkTransitions call, so no call moves currentState from a
\* state of the map to an id outside it.
C21_UnknownStateNeverMatches ==
  [][(smCall'.op = "checkTransitions" /\ smCall'.idx # 0) =>
       /\ sm.transitions[smCall'.idx].from \in sm.states
       /\ sm.transitions[smCall'.idx].to \in sm.states
       /\ sm.currentState \in sm.states => sm'.currentState \in sm'.states]_vars

\* the part of C21 that holds: addTransition accepts any from and to, the
\* transition being appended as given
Unknown_TransitionAccepted ==
  [][smCall'.op = "addTransition" =>
       /\ Len(sm'.transitions) = Len(sm.transitions) + 1
       /\ SubSeq(sm'.transitions, 1, Len(sm.transitions)) = sm.transitions]_vars

\* ------------------------------------------------------- claims: Group
\* the number of times shape occurs in the children list of g
Occurrences(g, shape) == Cardinality({i \in 1..Len(children[g]) : children[g][i] = shape})

HoldersOf(shape) == {g \in Groups : Occurrences(g, shape) > 0}

\* C6: every shape is in at most one children list, at most once, and its
\* parent is that group, or null when it is in no list.
C6_SingleParent ==
  \A shape \in Shapes :
    /\ Cardinality(HoldersOf(shape)) <= 1
    /\ \A g \in HoldersOf(shape) : Occurrences(g, shape) = 1 /\ parent[shape] = g
    /\ HoldersOf(shape) = {} => parent[shape] = Null

\* the groups reachable from g through children lists in at most n steps
RECURSIVE Descendants(_, _)
Descendants(g, n) ==
  IF n = 0 THEN {}
  ELSE LET kids == {children[g][i] : i \in 1..Len(children[g])} IN
       kids \cup UNION {Descendants(k, n - 1) : k \in kids \cap Groups}

\* C7: no group is reachable from itself through children lists.
C7_Acyclic == \A g \in Groups : g \notin Descendants(g, Cardinality(Groups))

\* C8: removeChild(shape) on a group whose children list does not hold shape
\* changes no children list and no parent reference.
C8_RemoveNonMemberNoOp ==
  [][(groupCall'.op = "removeChild" /\ ~groupCall'.member)
       => (children' = children /\ parent' = parent)]_vars

C8_Witness ==
  /\ groupCall.op = "removeChild"
  /\ ~groupCall.member
  /\ parent[groupCall.shape] # Null
  /\ parent[groupCall.shape] # groupCall.g

\* --------------------------------------------- claims: AnimationTrack
\* C9: on a non-empty track getValueAtTime(t) returns the first keyframe's
\* value for every t at or before the first keyframe's time and the last
\* keyframe's value for every t at or after the last keyframe's time.
C9_Clamp ==
  (trackCall.op = "getValueAtTime" /\ Len(keyframes) > 0)
    => /\ trackCall.time <= keyframes[1].time => trackCall.result = keyframes[1].value
       /\ trackCall.time >= keyframes[Len(keyframes)].time
            => trackCall.result = keyframes[Len(keyframes)].value

\* C9 on the tracks whose keyframe times are pairwise distinct, where it holds:
\* the clamp at the last keyframe fails only when an earlier keyframe shares
\* its time.
DistinctTimes ==
  \A i, j \in 1..Len(keyframes) : i # j => keyframes[i].time # keyframes[j].time

DistinctTimes_Clamp == DistinctTimes => C9_Clamp

\* the track of the scenario of section 8: {0, 0, linear}, {100, 10, ease-in},
\* just asked for its value at 50
ScenarioAsked ==
  /\ keyframes = <<Keyframe(0, Number(0), "linear"), Keyframe(100, Number(10), "ease-in")>>
  /\ trackCall.op = "getValueAtTime"
  /\ trackCall.time = 50

\* C10 as stated: in the scenario getValueAtTime(50) returns 2.5.
C10_ScenarioEaseIn == ScenarioAsked => trackCall.result = Rat(5, 2)

\* C10 amended: in the scenario getValueAtTime(50) returns 5, the progress 0.5
\* being eased by the before keyframe's easing, linear.
C10_ScenarioLinear == ScenarioAsked => trackCall.result = Number(5)

C10_Witness == ScenarioAsked /\ trackCall.result = Number(5)

\* C11: the keyframe times of a track are strictly increasing: a keyframe
\* added at a time that already holds one replaces it.
C11_StrictTimes ==
  \A i, j \in 1..Len(keyframes) : i < j => keyframes[i].time < keyframes[j].time

\* the keyframes i and i + 1 are neighbours with distinct times and the time
\* of the last getValueAtTime call lies strictly between them
StrictlyBetween(i) ==
  /\ trackCall.op = "getValueAtTime"
  /\ i \in 1..(Len(keyframes) - 1)
  /\ keyframes[i].time < trackCall.time
  /\ trackCall.time < keyframes[i + 1].time

\* the easings drawn for the track, as spec section 4.2 defines them
Eased(p, easing) == IF easing = "ease-in" THEN RatMul(p, p) ELSE p

\* C17: for t strictly between two neighbouring keyframes getValueAtTime
\* returns before + (after - before) * p', where p' is the easing of the before
\* keyframe applied to p = (t - before.time) / (after.time - before.time).
C17_BeforeEasing ==
  \A i \in 1..(Len(keyframes) - 1) :
    StrictlyBetween(i) =>
      LET before == keyframes[i]
          after == keyframes[i + 1]
          p == Rat(trackCall.time - before.time, after.time - before.time)
      IN trackCall.result
           = RatAdd(before.value,
                    RatMul(RatSub(after.value, before.value), Eased(p, before.easing)))

C17_Witness ==
  \E i \in 1..(Len(keyframes) - 1) :
    /\ StrictlyBetween(i)
    /\ keyframes[i].easing = "ease-in"
    /\ keyframes[i + 1].easing = "linear"
    /\ keyframes[i].value # keyframes[i + 1].value
    /\ trackCall.result \notin {keyframes[i].value, keyframes[i + 1].value}

\* C18: between two record values the result holds the linear blend of every
\* field that is numeric in both and, for every non-numeric field of the before
\* value, that field with the before value's content.
C18_RecordKeepsFields ==
  \A i \in 1..(Len(keyframes) - 1) :
    (StrictlyBetween(i) /\ keyframes[i].value.k = "object"
       /\ keyframes[i + 1].value.k = "object") =>
      LET before == keyframes[i]
          from == before.value.f
          to == keyframes[i + 1].value.f
          p == Eased(Rat(trackCall.time - before.time, keyframes[i + 1].time - before.time),
                     before.easing)
      IN /\ trackCall.result.k = "object"
         /\ \A key \in DOMAIN from :
              /\ key \in DOMAIN trackCall.result.f
              /\ IF from[key].k = "number" /\ key \in DOMAIN to /\ to[key].k = "number"
                 THEN trackCall.result.f[key]
                        = RatAdd(from[key], RatMul(RatSub(to[key], from[key]), p))
                 ELSE trackCall.result.f[key] = from[key]

\* the part of C18 that holds: the result is a record of exactly the fields
\* numeric in both values, each blended linearly
Record_NumericFieldsOnly ==
  \A i \in 1..(Len(keyframes) - 1) :
    (StrictlyBetween(i) /\ keyframes[i].value.k = "object"
       /\ keyframes[i + 1].value.k = "object") =>
      LET before == keyframes[i]
          from == before.value.f
          to == keyframes[i + 1].value.f
          p == Eased(Rat(trackCall.time - before.time, keyframes[i + 1].time - before.time),
                     before.easing)
      IN /\ trackCall.result.k = "object"
         /\ DOMAIN trackCall.result.f
              = {key \in DOMAIN from \cap DOMAIN to :
                   from[key].k = "number" /\ to[key].k = "number"}
         /\ \A key \in DOMAIN trackCall.result.f :
              trackCall.result.f[key] = RatAdd(from[key], RatMul(RatSub(to[key], from[key]), p))

\* the value the last call returns when the progress is not eased at all
LinearBlend(i) ==
  LET before == keyframes[i]
      after == keyframes[i + 1]
      p == Rat(trackCall.time - before.time, after.time - before.time)
  IN RatAdd(before.value, RatMul(RatSub(after.value, before.value), p))

\* C23: a segment whose before keyframe has the cubic-bezier easing is eased by
\* the curve, not by the identity: between two different values the result
\* differs from the linear blend.
C23_BezierNotIdentity ==
  \A i \in 1..(Len(keyframes) - 1) :
    (StrictlyBetween(i) /\ keyframes[i].easing = "bezier"
       /\ keyframes[i].value # keyframes[i + 1].value)
      => trackCall.result # LinearBlend(i)

\* what the code does instead: the bezier easing is the identity
Bezier_IsIdentity ==
  \A i \in 1..(Len(keyframes) - 1) :
    (StrictlyBetween(i) /\ keyframes[i].easing = "bezier")
      => trackCall.result = LinearBlend(i)

\* the sequence without its element at index
Without(seq, index) == SubSeq(seq, 1, index - 1) \o SubSeq(seq, index + 1, Len(seq))

\* C29: after every addKeyframe and removeKeyframe call the keyframes are
\* ordered by non-decreasing time; removeKeyframe(time) takes out one keyframe
\* of that time and leaves the others as they were, or changes nothing when no
\* keyframe has that time.
C29_OrderedAndRemoveOne ==
  [][/\ \A i, j \in 1..Len(keyframes') : i < j => keyframes'[i].time <= keyframes'[j].time
     /\ trackCall'.op = "removeKeyframe" =>
          IF \E i \in 1..Len(keyframes) : keyframes[i].time = trackCall'.time
          THEN \E i \in 1..Len(keyframes) :
                 /\ keyframes[i].time = trackCall'.time
                 /\ keyframes' = Without(keyframes, i)
          ELSE keyframes' = keyframes]_vars

\* a removeKeyframe call that took one of two keyframes of its time, on a
\* track that also holds an earlier keyframe
C29_Witness ==
  /\ trackCall.op = "removeKeyframe"
  /\ Len(keyframes) = 2
  /\ keyframes[1].time < keyframes[2].time
  /\ keyframes[2].time = trackCall.time

\* ------------------------------------------------ claims: RivExporter
\* the discriminator a record needs to tell the variant of its shape
TypeOf(class) ==
  CASE class = "Rectangle" -> "rectangle"
    [] class = "Ellipse" -> "ellipse"
    [] class = "Path" -> "path"
    [] class = "Group" -> "group"

\* the keys of a shape whose values a structurally equal copy must carry
OwnFields(class) ==
  {"id", "name", "transform", "fill", "stroke", "opacity", "visible", "locked"}
    \cup (CASE class = "Rectangle" -> {"width", "height", "cornerRadius"}
            [] class = "Ellipse" -> {"radiusX", "radiusY"}
            [] class = "Path" -> {"pathData"}
            [] class = "Group" -> {})

\* the record retains shape: its variant, every field value, and for a Group
\* the records of its children, in order
RECURSIVE Retains(_, _)
Retains(record, shape) ==
  /\ "type" \in DOMAIN record
  /\ record.type = TypeOf(shape.class)
  /\ \A key \in OwnFields(shape.class) : key \in DOMAIN record /\ record[key] = shape[key]
  /\ shape.class = "Group" =>
       /\ "children" \in DOMAIN record
       /\ Len(record.children) = Len(shape.children)
       /\ \A i \in 1..Len(shape.children) : Retains(record.children[i], shape.children[i])

\* C12: the exported document retains what a structurally equal project is
\* rebuilt from: every root shape in order, with its variant, ids, field
\* values and, for groups, children.
C12_ExportRetainsProject ==
  exported.done =>
    LET shapes == exported.doc.artboards[1].shapes IN
    /\ Len(shapes) = Len(artboard.shapes)
    /\ \A i \in 1..Len(artboard.shapes) : Retains(shapes[i], artboard.shapes[i])

\* the part of C12 the exporter does keep: the roots in order, each with its
\* id, name, transform, opacity and visible
Exported_RootsInOrder ==
  exported.done =>
    LET shapes == exported.doc.artboards[1].shapes IN
    /\ Len(shapes) = Len(artboard.shapes)
    /\ \A i \in 1..Len(artboard.shapes) :
         \A key \in {"id", "name", "transform", "opacity", "visible"} :
           shapes[i][key] = artboard.shapes[i][key]

\* the fields of a variant beyond those every shape has
VariantFields(class) ==
  CASE class = "Rectangle" -> {"width", "height", "cornerRadius"}
    [] class = "Ellipse" -> {"radiusX", "radiusY"}
    [] class = "Path" -> {"pathData"}
    [] class = "Group" -> {"children"}

\* the record carries the discriminator of class and the fields of the variant,
\* with the shape's values
CarriesVariant(record, shape) ==
  /\ "type" \in DOMAIN record
  /\ record.type = TypeOf(shape.class)
  /\ \A key \in VariantFields(shape.class) :
       /\ key \in DOMAIN record
       /\ shape.class # "Group" => record[key] = shape[key]
  /\ shape.class = "Group" => Len(record.children) = Len(shape.children)

\* C22: every shape record of the exported document carries the type
\* discriminator of its shape's variant and that variant's own fields, for a
\* Group its children.
C22_RecordCarriesVariant ==
  exported.done =>
    \A i \in 1..Len(artboard.shapes) :
      CarriesVariant(exported.doc.artboards[1].shapes[i], artboard.shapes[i])

\* the part of C22 that holds: the records of Rectangle, Ellipse and Path
Leaf_RecordCarriesVariant ==
  exported.done =>
    \A i \in 1..Len(artboard.shapes) :
      artboard.shapes[i].class # "Group" =>
        CarriesVariant(exported.doc.artboards[1].shapes[i], artboard.shapes[i])

\* ------------------------------------------------ claims: Animation
\* the value at the end of a path of an object, undefined when the walk leaves
\* the objects
RECURSIVE Leaf(_, _)
Leaf(v, parts) ==
  IF Len(parts) = 0 THEN v
  ELSE IF v.k # "object" THEN UndefinedValue
  ELSE Leaf(Get(v, parts[1]), Tail(parts))

IsPrefix(p, q) == Len(p) <= Len(q) /\ SubSeq(q, 1, Len(p)) = p

\* the tracks that resolved to a value at the time of the last call and whose
\* path no other track's path runs through
Applied(time) ==
  {i \in 1..Len(animTracks) :
     /\ getValueAtTime(animTracks[i].keyframes, time) # NullValue
     /\ \A j \in 1..Len(animTracks) :
          j # i => /\ ~IsPrefix(animTracks[j].property, animTracks[i].property)
                   /\ ~IsPrefix(animTracks[i].property, animTracks[j].property)}

\* C13: applyToShape does not throw, and after it the leaf of every track that
\* resolved to a value holds that value.
C13_ApplyNeverThrows ==
  applyCall.op = "applyToShape" =>
    /\ ~applyCall.threw
    /\ \A i \in Applied(applyCall.time) :
         Leaf(animShape, animTracks[i].property)
           = getValueAtTime(animTracks[i].keyframes, applyCall.time)

\* the walk through an intermediate that holds a truthy primitive
ThroughPrimitive(parts) ==
  \E n \in 1..(Len(parts) - 1) :
    LET v == Leaf(NewShapeObject, SubSeq(parts, 1, n)) IN
    v.k \in {"number", "boolean", "string"} /\ ToBoolean(v)

\* the part of C13 that holds: without a track through a truthy primitive the
\* call does not throw and every leaf holds its value, also through null, a
\* falsy primitive or an absent intermediate
NoPrimitive_ApplyNeverThrows ==
  (\A i \in 1..Len(animTracks) : ~ThroughPrimitive(animTracks[i].property))
    => C13_ApplyNeverThrows

\* the paths of all the values held in the tree of v, the empty path for v
RECURSIVE Nodes(_)
Nodes(v) ==
  IF v.k # "object" THEN {<<>>}
  ELSE {<<>>} \cup UNION {{<<key>> \o p : p \in Nodes(v.f[key])} : key \in DOMAIN v.f}

\* no track that resolves to a value at time addresses q, a value on the way
\* to q or a value below q
Unaddressed(q, time) ==
  \A i \in 1..Len(animTracks) :
    getValueAtTime(animTracks[i].keyframes, time) # NullValue =>
      /\ ~IsPrefix(q, animTracks[i].property)
      /\ ~IsPrefix(animTracks[i].property, q)

RECURSIVE Deep(_, _)
Deep(h, v) ==
  IF v.k = "ref" THEN Obj([key \in DOMAIN h[v.a] |-> Deep(h, h[v.a][key])]) ELSE v

\* transform, fill and stroke of a shape, by value
Appearance(h, shape) ==
  [transform |-> Deep(h, shape.transform), fill |-> Deep(h, shape.fill),
   stroke |-> Deep(h, shape.stroke)]

\* C14: right after clone() the clone's transform, fill and stroke equal the
\* source's, and an assignment made through one of the two shapes, at any
\* depth, leaves the other's transform, fill and stroke unchanged.
C14_CloneByValue ==
  [][/\ cloneCall'.op = "clone" =>
          Appearance(heap', cloneShapes'[cloneCall'.who]) = Appearance(heap', cloneShapes'[1])
     /\ cloneCall'.op = "set" =>
          \A other \in 1..Len(cloneShapes) :
            other # cloneCall'.who =>
              Appearance(heap', cloneShapes'[other]) = Appearance(heap, cloneShapes[other])]_vars

\* the part of C14 that holds: an assignment to a direct field of the clone's
\* transform, fill or stroke object (rotation, type, width) leaves the source
\* unchanged, and for the variants other than Group the clone equals the source
\* right after cloning
Clone_TopLevelByValue ==
  [][/\ cloneCall'.op = "clone" /\ cloneShapes[1].class # "Group" =>
          Appearance(heap', cloneShapes'[cloneCall'.who]) = Appearance(heap', cloneShapes'[1])
     /\ cloneCall'.op = "set" =>
          \A other \in 1..Len(cloneShapes) :
            other # cloneCall'.who =>
              \A name \in {"transform", "fill", "stroke"} :
                /\ cloneShapes'[other][name] = cloneShapes[other][name]
                /\ cloneShapes[other][name].k = "ref" =>
                     heap'[cloneShapes[other][name].a] = heap[cloneShapes[other][name].a]]_vars

\* ------------------------------------------------ claims: Group.clone
\* node is a clone of shape: for a group, its children are clones of the
\* group's children in order, each with node as parent
RECURSIVE IsCloneOf(_, _)
IsCloneOf(node, shape) ==
  /\ node.of = shape
  /\ node.id = shape \o "_clone"
  /\ Len(node.children) = (IF shape \in Groups THEN Len(children[shape]) ELSE 0)
  /\ \A i \in 1..Len(node.children) :
       /\ node.children[i].parent = Ref(node.at)
       /\ node.children[i].at = Append(node.at, i)
       /\ IsCloneOf(node.children[i], children[shape][i])

\* C15: Group.clone() returns a new group whose children are clones of the
\* source's children in order, recursively, each with the cloned group as
\* parent; the children lists and parent references of the scene are unchanged.
C15_GroupCloneStructure ==
  [][groupCall'.op = "clone" =>
       /\ cloned' # RangeError
       /\ IsCloneOf(cloned', groupCall'.g)
       /\ cloned'.parent = NullValue
       /\ children' = children
       /\ parent' = parent]_vars

\* the part of C15 that holds: on a scene without a cycle of children lists
Acyclic_GroupCloneStructure ==
  [][(groupCall'.op = "clone" /\ C7_Acyclic) =>
       /\ cloned' # RangeError
       /\ IsCloneOf(cloned', groupCall'.g)
       /\ cloned'.parent = NullValue
       /\ children' = children
       /\ parent' = parent]_vars

Acyclic_GroupCloneWitness ==
  /\ groupCall.op = "clone"
  /\ cloned # RangeError
  /\ \E i \in 1..Len(cloned.children) : Len(cloned.children[i].children) > 0

\* ------------------------------------------------ claims: Shape.render
\* the shapes from the group g down to the position at: g, then the child at
\* each index
RECURSIVE Chain(_, _)
Chain(g, at) ==
  IF Len(at) = 0 THEN <<g>>
  ELSE <<g>> \o Chain(children[g][at[1]], Tail(at))

\* the product of the opacities of the shapes of a chain
RECURSIVE OpacityProduct(_)
OpacityProduct(chain) ==
  IF Len(chain) = 0 THEN Number(1)
  ELSE RatMul(look[chain[1]].opacity, OpacityProduct(Tail(chain)))

\* C16: every drawing made while a Group is rendered is made under the product
\* of the drawn shape's opacity and the opacities of all groups enclosing it.
C16_OpacityProduct ==
  groupCall.op = "render" =>
    \A i \in 1..Len(ctx.drawn) :
      ctx.drawn[i].alpha = OpacityProduct(Chain(groupCall.g, ctx.drawn[i].at))

\* what the code does instead: every drawing is made under the drawn shape's
\* own opacity alone
Render_OwnOpacity ==
  groupCall.op = "render" =>
    \A i \in 1..Len(ctx.drawn) : ctx.drawn[i].alpha = look[ctx.drawn[i].shape].opacity

\* ------------------------------------------------ claims: useEditorStore
\* C24: there is never more than one animate callback waiting, and an
\* animation frame during playback advances currentFrame by exactly 1 modulo 120.
C24_SinglePlaybackLoop ==
  [][/\ pending' <= 1
     /\ (storeCall'.op = "frame" /\ store.isPlaying) =>
          store'.currentFrame = (store.currentFrame + 1) % FrameCount]_vars

\* the part of C24 that holds: a single setIsPlaying(true) from rest starts one
\* loop, and a paused store drops every waiting callback at the next frame
Playback_OneLoopFromRest ==
  [][/\ (storeCall'.op = "setIsPlaying" /\ pending = 0 /\ store'.isPlaying) => pending' = 1
     /\ (storeCall'.op = "frame" /\ ~store.isPlaying) =>
          (pending' = 0 /\ store'.currentFrame = store.currentFrame)]_vars

Mutation == storeCall'.op \in {"addShape", "updateShape", "deleteShape"}

\* C25: after every shape mutation, the first on a fresh store included,
\* canUndo is true and one undo gives back the shapes from before the mutation.
C25_MutationUndoable ==
  [][Mutation => (store'.canUndo /\ undo(store').shapes = store.shapes)]_vars

\* the part of C25 that holds: every mutation but the first one of the history
\* can be undone
Mutation_UndoableAfterFirst ==
  [][(Mutation /\ store.historyIndex >= 0) =>
       (store'.canUndo /\ undo(store').shapes = store.shapes)]_vars

\* C26: wherever canUndo is true, undo and then redo give back the shapes and
\* the selectedShapes from before the undo.
C26_UndoRedoRestores ==
  store.canUndo =>
    /\ redo(undo(store)).shapes = store.shapes
    /\ redo(undo(store)).selectedShapes = store.selectedShapes

\* the part of C26 that holds: the shapes come back
UndoRedo_RestoresShapes ==
  store.canUndo => redo(undo(store)).shapes = store.shapes

\* C27: in every state of the store canUndo is (historyIndex > 0) and canRedo
\* is (historyIndex < history.length - 1).
C27_FlagsFollowIndex ==
  /\ store.canUndo = (store.historyIndex > 0)
  /\ store.canRedo = (store.historyIndex < Len(store.history) - 1)

\* an undo has brought a full history back to its first snapshot: canUndo has
\* gone off and canRedo on
C27_Witness ==
  /\ storeCall.op = "undo"
  /\ Len(store.history) = HistoryLimit
  /\ store.historyIndex = 0
  /\ ~store.canUndo
  /\ store.canRedo

StoreInvariant ==
  /\ Len(store.history) <= HistoryLimit
  /\ -1 <= store.historyIndex
  /\ store.historyIndex <= Len(store.history) - 1
  /\ store.historyIndex = -1 => store.history = <<>>

Snapshot(st) == [shapes |-> st.shapes, selectedShapes |-> st.selectedShapes]

====
